---- MODULE Spec2Model ----
(***************************************************************************)
(* Formulation Optimization Agent (src/app.py): the Streamlit script that  *)
(* generates a formulation text, parses its Markdown table, verifies each  *)
(* ingredient against PubChem through a memoised lookup and renders the    *)
(* verification report.                                                    *)
(*                                                                         *)
(* A Python str is modelled as a sequence of one-character strings, so     *)
(* that strip, split, replace, lower and the substring tests are computed  *)
(* as the code computes them.                                              *)
(***************************************************************************)
EXTENDS Integers, Sequences, FiniteSets, TLC

\* ------------------------------------------------------------------------
\* Bounds of the model
\* ------------------------------------------------------------------------

\* lines per generated text in Spec
MaxGenLines ==
  2

\* lines per generated text in SpecParse
MaxParseLines ==
  2

\* ------------------------------------------------------------------------
\* Python string operations used by the script
\* ------------------------------------------------------------------------

\* characters str.strip() removes
WhiteSpace ==
  {" ", "\t", "\n", "\r"}

RECURSIVE lstrip(_)
lstrip(s) ==
  IF s # <<>> /\ Head(s) \in WhiteSpace THEN lstrip(Tail(s)) ELSE s

RECURSIVE rstrip(_)
rstrip(s) ==
  IF s # <<>> /\ s[Len(s)] \in WhiteSpace
  THEN rstrip(SubSeq(s, 1, Len(s) - 1))
  ELSE s

\* str.strip()
strip(s) ==
  rstrip(lstrip(s))

\* str.split(sep) for a one-character separator: always at least one segment
RECURSIVE split(_, _)
split(s, sep) ==
  LET at == {i \in 1..Len(s) : s[i] = sep}
  IN  IF at = {}
      THEN <<s>>
      ELSE LET i == CHOOSE k \in at : \A m \in at : k <= m
           IN  <<SubSeq(s, 1, i - 1)>> \o split(SubSeq(s, i + 1, Len(s)), sep)

\* str.replace(old, '') for a one-character old
replace(s, old) ==
  SelectSeq(s, LAMBDA c : c # old)

UpperCase ==
  <<"A", "B", "C", "D", "E", "F", "G", "H", "I", "J", "K", "L", "M",
    "N", "O", "P", "Q", "R", "S", "T", "U", "V", "W", "X", "Y", "Z">>

LowerCase ==
  <<"a", "b", "c", "d", "e", "f", "g", "h", "i", "j", "k", "l", "m",
    "n", "o", "p", "q", "r", "s", "t", "u", "v", "w", "x", "y", "z">>

\* str.lower()
lower(s) ==
  [i \in 1..Len(s) |->
     IF \E k \in 1..26 : UpperCase[k] = s[i]
     THEN LowerCase[CHOOSE k \in 1..26 : UpperCase[k] = s[i]]
     ELSE s[i]]

\* the Python test  sub in s
contains(s, sub) ==
  \E i \in 0..(Len(s) - Len(sub)) : SubSeq(s, i + 1, i + Len(sub)) = sub

\* str.startswith(c) and str.endswith(c) for a one-character c
startswith(s, c) ==
  s # <<>> /\ s[1] = c

endswith(s, c) ==
  s # <<>> /\ s[Len(s)] = c

\* ------------------------------------------------------------------------
\* Text literals
\* ------------------------------------------------------------------------

\* "| Phase | Ingredient Name (INCI) | % | Function |"
HeaderLine ==
  <<"|", " ", "P", "h", "a", "s", "e", " ", "|", " ", "I", "n", "g", "r", "e", "d", "i", "e", "n", "t", " ", "N", "a", "m", "e", " ", "(", "I", "N", "C", "I", ")", " ", "|", " ", "%", " ", "|", " ", "F", "u", "n", "c", "t", "i", "o", "n", " ", "|">>
\* "|---|---|---|---|"
SeparatorLine ==
  <<"|", "-", "-", "-", "|", "-", "-", "-", "|", "-", "-", "-", "|", "-", "-", "-", "|">>
\* "| Water | Water | 70 | Solvent |"
WaterLine ==
  <<"|", " ", "W", "a", "t", "e", "r", " ", "|", " ", "W", "a", "t", "e", "r", " ", "|", " ", "7", "0", " ", "|", " ", "S", "o", "l", "v", "e", "n", "t", " ", "|">>
\* "| Oil | Squalane | 10 | Emollient |"
SqualaneLine ==
  <<"|", " ", "O", "i", "l", " ", "|", " ", "S", "q", "u", "a", "l", "a", "n", "e", " ", "|", " ", "1", "0", " ", "|", " ", "E", "m", "o", "l", "l", "i", "e", "n", "t", " ", "|">>
\* "| A | Phase | 5 | x |"
PhaseNameLine ==
  <<"|", " ", "A", " ", "|", " ", "P", "h", "a", "s", "e", " ", "|", " ", "5", " ", "|", " ", "x", " ", "|">>
\* "| A | - | 5 | x |"
DashNameLine ==
  <<"|", " ", "A", " ", "|", " ", "-", " ", "|", " ", "5", " ", "|", " ", "x", " ", "|">>
\* "| A | PEG---X | 5 | x |"
TripleDashNameLine ==
  <<"|", " ", "A", " ", "|", " ", "P", "E", "G", "-", "-", "-", "X", " ", "|", " ", "5", " ", "|", " ", "x", " ", "|">>
\* "| Water | 70 |"
NarrowLine ==
  <<"|", " ", "W", "a", "t", "e", "r", " ", "|", " ", "7", "0", " ", "|">>
\* "  | A | Aqua* | 5 | x | "
IndentedLine ==
  <<" ", " ", "|", " ", "A", " ", "|", " ", "A", "q", "u", "a", "*", " ", "|", " ", "5", " ", "|", " ", "x", " ", "|", " ">>
\* "| A |  | 5 | x |"
BlankNameLine ==
  <<"|", " ", "A", " ", "|", " ", " ", "|", " ", "5", " ", "|", " ", "x", " ", "|">>
\* "| A | Water | 70 | Solvent"
OpenLine ==
  <<"|", " ", "A", " ", "|", " ", "W", "a", "t", "e", "r", " ", "|", " ", "7", "0", " ", "|", " ", "S", "o", "l", "v", "e", "n", "t">>
\* "1. Glycerin 5%"
NumberedLine ==
  <<"1", ".", " ", "G", "l", "y", "c", "e", "r", "i", "n", " ", "5", "%">>
\* "- Glycerin: 5%"
BulletLine ==
  <<"-", " ", "G", "l", "y", "c", "e", "r", "i", "n", ":", " ", "5", "%">>
\* "Chemist's Note"
ProseLine ==
  <<"C", "h", "e", "m", "i", "s", "t", "'", "s", " ", "N", "o", "t", "e">>
\* "|A|Aqua|1|x|"
AquaLine ==
  <<"|", "A", "|", "A", "q", "u", "a", "|", "1", "|", "x", "|">>
\* "|A|Aqua*|1|x|"
AquaStarLine ==
  <<"|", "A", "|", "A", "q", "u", "a", "*", "|", "1", "|", "x", "|">>
\* "|A|*|1|x|"
StarLine ==
  <<"|", "A", "|", "*", "|", "1", "|", "x", "|">>
\* "- Aqua"
BulletAquaLine ==
  <<"-", " ", "A", "q", "u", "a">>
\* "ingredient name"
IngredientNameToken ==
  <<"i", "n", "g", "r", "e", "d", "i", "e", "n", "t", " ", "n", "a", "m", "e">>
\* "---"
TripleDash ==
  <<"-", "-", "-">>
\* "Phase"
PhaseToken ==
  <<"P", "h", "a", "s", "e">>

\* ------------------------------------------------------------------------
\* Position-based descriptions of lines, table rows and list items, used to
\* state the properties of the parser
\* ------------------------------------------------------------------------

positions(s, c) ==
  {i \in 1..Len(s) : s[i] = c}

\* the k-th smallest member of a set of integers
kth(S, k) ==
  CHOOSE x \in S : Cardinality({y \in S : y <= x}) = k

line_starts(text) ==
  {1} \cup {i + 1 : i \in positions(text, "\n")}

\* the line that starts at position b
line_at(text, b) ==
  LET ends == {i \in positions(text, "\n") : i >= b}
  IN  SubSeq(text, b, IF ends = {} THEN Len(text) ELSE kth(ends, 1) - 1)

\* the first and the last non-blank character are both '|'
bordered(line) ==
  LET ink == {i \in 1..Len(line) : line[i] \notin WhiteSpace}
  IN  /\ ink # {}
      /\ line[kth(ink, 1)] = "|"
      /\ line[kth(ink, Cardinality(ink))] = "|"

\* number of segments '|' cuts the line into
segments(line) ==
  Cardinality(positions(line, "|")) + 1

\* the trimmed text after the second '|', up to the third '|' or the end
segment2(line) ==
  LET p == positions(line, "|")
  IN  strip(SubSeq(line, kth(p, 2) + 1,
                   IF Cardinality(p) >= 3 THEN kth(p, 3) - 1 ELSE Len(line)))

\* segment 2 of every line that satisfies Q, in line order
rows_where(text, Q(_)) ==
  LET S == {b \in line_starts(text) : Q(line_at(text, b))}
  IN  [k \in 1..Cardinality(S) |-> segment2(line_at(text, kth(S, k)))]

only_dashes(s) ==
  s # <<>> /\ \A i \in 1..Len(s) : s[i] = "-"

Letters ==
  {UpperCase[k] : k \in 1..26} \cup {LowerCase[k] : k \in 1..26}

Digits ==
  {"0", "1", "2", "3", "4", "5", "6", "7", "8", "9"}

NameChars ==
  Letters \cup {" ", "(", ")", "-"}

\* the longest prefix of s made of characters of the set cs
RECURSIVE prefix_in(_, _)
prefix_in(s, cs) ==
  IF s # <<>> /\ Head(s) \in cs
  THEN <<Head(s)>> \o prefix_in(Tail(s), cs)
  ELSE <<>>

\* the name of a list item: a leading "N." or "-" marker followed by letters,
\* spaces, parentheses and hyphens (a sequence of zero or one names)
list_item(line) ==
  LET s == lstrip(line)
      nd == Len(prefix_in(s, Digits))
      rest == IF s # <<>> /\ s[1] = "-" THEN <<Tail(s)>>
              ELSE IF nd >= 1 /\ Len(s) > nd /\ s[nd + 1] = "."
              THEN <<SubSeq(s, nd + 2, Len(s))>>
              ELSE <<>>
  IN  IF rest = <<>> THEN <<>>
      ELSE LET name == strip(prefix_in(lstrip(rest[1]), NameChars))
           IN  IF \E i \in 1..Len(name) : name[i] \in Letters
               THEN <<name>> ELSE <<>>

RECURSIVE list_items_from(_, _)
list_items_from(text, k) ==
  IF k > Cardinality(line_starts(text)) THEN <<>>
  ELSE list_item(line_at(text, kth(line_starts(text), k)))
         \o list_items_from(text, k + 1)

list_items(text) ==
  list_items_from(text, 1)

\* ------------------------------------------------------------------------
\* Inputs: the texts the formulation generator may return, and the answers
\* of the compound database
\* ------------------------------------------------------------------------

\* s1 + "\n" + s2 + ... for a non-empty sequence of lines
RECURSIVE join_lines(_)
join_lines(ls) ==
  IF Len(ls) = 1 THEN ls[1] ELSE ls[1] \o <<"\n">> \o join_lines(Tail(ls))

Texts(lines, n) ==
  UNION {{join_lines(ls) : ls \in [1..k -> lines]} : k \in 1..n}

GenLines ==
  {SeparatorLine, AquaLine, AquaStarLine, StarLine, BulletAquaLine}

GenTexts ==
  Texts(GenLines, MaxGenLines)

ParseLines ==
  {HeaderLine, SeparatorLine, WaterLine, SqualaneLine, PhaseNameLine,
   DashNameLine, TripleDashNameLine, NarrowLine, IndentedLine, BlankNameLine,
   OpenLine, NumberedLine, BulletLine, ProseLine}

\* scenario A: a table of a header, a separator and two data rows
ScenarioA ==
  join_lines(<<HeaderLine, SeparatorLine, WaterLine, SqualaneLine>>)

ParseTexts ==
  Texts(ParseLines, MaxParseLines) \cup {ScenarioA}

\* pcp.get_compounds either raises or returns a list of compounds, of which
\* the script reads molecular_formula
PcpOutcomes ==
  {[raised |-> TRUE, results |-> <<>>],
   [raised |-> FALSE, results |-> <<>>],
   [raised |-> FALSE, results |-> <<"H2O">>]}

\* ------------------------------------------------------------------------
\* State
\* ------------------------------------------------------------------------

VARIABLES
  formulation_text,       \* st.session_state.formulation_text
  verify_cache,           \* st.cache_data memo of verify_ingredient_pubchem
  pc,                     \* position in the script run: "idle" or "display"
  run,                    \* how the current run started
  shown,                  \* Streamlit elements rendered by the current run
  ingredients_to_verify,  \* parser result of the current run
  verification_data,      \* report rows of the current run
  verifyLog,              \* verify calls of the current run
  analyzeLog,             \* analyze_complex_ingredient calls of the current run
  firstResult,            \* history: first result verify returned per argument
  pcpCalls                \* history: pcp.get_compounds calls per verify argument

vars ==
  <<formulation_text, verify_cache, pc, run, shown, ingredients_to_verify,
    verification_data, verifyLog, analyzeLog, firstResult, pcpCalls>>

\* ------------------------------------------------------------------------
\* verify_ingredient_pubchem and its memo
\* ------------------------------------------------------------------------

\* clean_name = ingredient_name.strip().replace('*', '')
clean_name(ingredient_name) ==
  replace(strip(ingredient_name), "*")

\* verify_ingredient_pubchem testing the argument, not clean_name, for emptiness
verify_tests_raw_name(ingredient_name, outcome) ==
  IF ingredient_name = <<>>
  THEN [value |-> <<"Empty", "-">>, queried |-> FALSE]
  ELSE IF outcome.raised
  THEN [value |-> <<"API Error", "-">>, queried |-> TRUE]
  ELSE IF outcome.results # <<>>
  THEN [value |-> <<"Verified", outcome.results[1]>>, queried |-> TRUE]
  ELSE [value |-> <<"Not Found", "-">>, queried |-> TRUE]

\* body of verify_ingredient_pubchem; outcome is what pcp.get_compounds does
\* if it is called
verify_ingredient_pubchem(ingredient_name, outcome) ==
  IF clean_name(ingredient_name) = <<>>
  THEN [value |-> <<"Empty", "-">>, queried |-> FALSE]
  ELSE IF outcome.raised
  THEN [value |-> <<"API Error", "-">>, queried |-> TRUE]
  ELSE IF outcome.results # <<>>
  THEN [value |-> <<"Verified", outcome.results[1]>>, queried |-> TRUE]
  ELSE [value |-> <<"Not Found", "-">>, queried |-> TRUE]

\* a memo that does not keep the result of a call that ended in an exception
cached_verify_drops_errors(memo, ingredient_name, outcome) ==
  IF ingredient_name \in DOMAIN memo
  THEN [value |-> memo[ingredient_name], memo |-> memo, queried |-> FALSE]
  ELSE LET r == verify_ingredient_pubchem(ingredient_name, outcome)
       IN  [value |-> r.value,
            memo |-> IF r.value[1] = "API Error" THEN memo
                     ELSE memo @@ (ingredient_name :> r.value),
            queried |-> r.queried]

\* a memo keyed by clean_name instead of the argument
cached_verify_by_clean_name(memo, ingredient_name, outcome) ==
  IF clean_name(ingredient_name) \in DOMAIN memo
  THEN [value |-> memo[clean_name(ingredient_name)], memo |-> memo,
        queried |-> FALSE]
  ELSE LET r == verify_ingredient_pubchem(ingredient_name, outcome)
       IN  [value |-> r.value,
            memo |-> memo @@ (clean_name(ingredient_name) :> r.value),
            queried |-> r.queried]

\* @st.cache_data: the body runs only for an argument not seen before, and
\* its return value is stored under the argument
cached_verify(memo, ingredient_name, outcome) ==
  IF ingredient_name \in DOMAIN memo
  THEN [value |-> memo[ingredient_name], memo |-> memo, queried |-> FALSE]
  ELSE LET r == verify_ingredient_pubchem(ingredient_name, outcome)
       IN  [value |-> r.value,
            memo |-> memo @@ (ingredient_name :> r.value),
            queried |-> r.queried]

\* ------------------------------------------------------------------------
\* The parser
\* ------------------------------------------------------------------------

\* columns = [col.strip() for col in line.split('|')]
columns_of(line) ==
  LET cols == split(line, "|")
  IN  [k \in 1..Len(cols) |-> strip(cols[k])]

\* parse_line accepting rows of three segments
parse_line_three_columns(line) ==
  IF startswith(strip(line), "|") /\ endswith(strip(line), "|")
  THEN LET columns == columns_of(line)
       IN  IF Len(columns) >= 3
           THEN LET ingredient_name == columns[3]
                IN  IF /\ ~contains(lower(ingredient_name), IngredientNameToken)
                       /\ ~contains(ingredient_name, TripleDash)
                    THEN <<ingredient_name>>
                    ELSE <<>>
           ELSE <<>>
  ELSE <<>>

\* the ingredient a line contributes (a sequence of zero or one names)
parse_line(line) ==
  IF startswith(strip(line), "|") /\ endswith(strip(line), "|")
  THEN LET columns == columns_of(line)
       IN  IF Len(columns) >= 5
           THEN LET ingredient_name == columns[3]
                IN  IF /\ ~contains(lower(ingredient_name), IngredientNameToken)
                       /\ ~contains(ingredient_name, TripleDash)
                    THEN <<ingredient_name>>
                    ELSE <<>>
           ELSE <<>>
  ELSE <<>>

RECURSIVE parse_lines(_)
parse_lines(lines) ==
  IF lines = <<>> THEN <<>>
  ELSE parse_line(Head(lines)) \o parse_lines(Tail(lines))

\* a parser that falls back to list items when no table row is found
parse_table_with_list_fallback(text) ==
  IF parse_lines(split(text, "\n")) # <<>>
  THEN parse_lines(split(text, "\n"))
  ELSE list_items(text)

\* ingredients_to_verify for a text
parse_table(text) ==
  parse_lines(split(text, "\n"))

\* ------------------------------------------------------------------------
\* The report loop
\* ------------------------------------------------------------------------

\* a loop body that replaces every status other than Verified
report_row_replaces_unverified(ingredient, value) ==
  IF value[1] # "Verified"
  THEN [Ingredient |-> ingredient, Status |-> "Complex/Blend*",
        Details |-> "See Chemist's Note"]
  ELSE [Ingredient |-> ingredient, Status |-> value[1], Details |-> value[2]]

\* a loop body that keeps the Not Found status
report_row_keeps_not_found(ingredient, value) ==
  [Ingredient |-> ingredient, Status |-> value[1], Details |-> value[2]]

\* the row appended for an ingredient whose verify call returned value
report_row(ingredient, value) ==
  IF value[1] = "Not Found"
  THEN [Ingredient |-> ingredient, Status |-> "Complex/Blend*",
        Details |-> "See Chemist's Note"]
  ELSE [Ingredient |-> ingredient, Status |-> value[1], Details |-> value[2]]

\* the analyze_complex_ingredient calls the loop body makes for an ingredient:
\* the loop body contains none
analyze_calls(ingredient, value) ==
  <<>>

\* a loop that a lookup exception ends
RECURSIVE report_loop_stops_on_error(_, _, _, _)
report_loop_stops_on_error(ingredients, oracle, i, acc) ==
  IF i > Len(ingredients) THEN acc
  ELSE LET ingredient == ingredients[i]
           v == cached_verify(acc.memo, ingredient, oracle[i])
       IN  IF v.value[1] = "API Error"
           THEN [acc EXCEPT !.memo = v.memo]
           ELSE report_loop_stops_on_error(ingredients, oracle, i + 1,
             [rows |-> Append(acc.rows, report_row(ingredient, v.value)),
              memo |-> v.memo,
              log |-> Append(acc.log, [name |-> ingredient, value |-> v.value,
                                       queried |-> v.queried,
                                       outcome |-> oracle[i]]),
              analyzed |-> acc.analyzed \o analyze_calls(ingredient, v.value)])

\* for ingredient in ingredients_to_verify: ...; oracle[i] is what the
\* database does if the i-th call reaches it
RECURSIVE report_loop(_, _, _, _)
report_loop(ingredients, oracle, i, acc) ==
  IF i > Len(ingredients) THEN acc
  ELSE LET ingredient == ingredients[i]
           v == cached_verify(acc.memo, ingredient, oracle[i])
       IN  report_loop(ingredients, oracle, i + 1,
             [rows |-> Append(acc.rows, report_row(ingredient, v.value)),
              memo |-> v.memo,
              log |-> Append(acc.log, [name |-> ingredient, value |-> v.value,
                                       queried |-> v.queried,
                                       outcome |-> oracle[i]]),
              analyzed |-> acc.analyzed \o analyze_calls(ingredient, v.value)])

\* ------------------------------------------------------------------------
\* History bookkeeping (not program state)
\* ------------------------------------------------------------------------

EmptyMap ==
  [k \in {} |-> 0]

RECURSIVE record_first(_, _)
record_first(first, log) ==
  IF log = <<>> THEN first
  ELSE record_first(IF Head(log).name \in DOMAIN first THEN first
                    ELSE first @@ (Head(log).name :> Head(log).value),
                    Tail(log))

RECURSIVE record_calls(_, _)
record_calls(calls, log) ==
  IF log = <<>> THEN calls
  ELSE LET e == Head(log)
           n == IF e.name \in DOMAIN calls THEN calls[e.name] ELSE 0
           c == IF e.queried THEN n + 1 ELSE n
       IN  record_calls([k \in DOMAIN calls \cup {e.name} |->
                           IF k = e.name THEN c ELSE calls[k]],
                        Tail(log))

\* ------------------------------------------------------------------------
\* Script runs
\* ------------------------------------------------------------------------

Init ==
  /\ formulation_text = <<>>
  /\ verify_cache = EmptyMap
  /\ pc = "idle"
  /\ run = [submit |-> FALSE, generation |-> "none"]
  /\ shown = {}
  /\ ingredients_to_verify = <<>>
  /\ verification_data = <<>>
  /\ verifyLog = <<>>
  /\ analyzeLog = <<>>
  /\ firstResult = EmptyMap
  /\ pcpCalls = EmptyMap

\* a new run starts with nothing rendered
StartRun(r, text, elements, position) ==
  /\ pc = "idle"
  /\ formulation_text' = text
  /\ run' = r
  /\ shown' = elements
  /\ pc' = position
  /\ ingredients_to_verify' = <<>>
  /\ verification_data' = <<>>
  /\ verifyLog' = <<>>
  /\ analyzeLog' = <<>>
  /\ UNCHANGED <<verify_cache, firstResult, pcpCalls>>

\* submit with ingredients; the Groq call returns a non-empty content
SubmitGenerated ==
  \E text \in GenTexts :
    StartRun([submit |-> TRUE, generation |-> "text"], text,
             {"header1", "header2"}, "display")

\* submit with ingredients; the Groq call raises
SubmitGenerationRaises ==
  StartRun([submit |-> TRUE, generation |-> "raised"], <<>>,
           {"header1", "header2", "error"}, "display")

\* submit with ingredients; the Groq call returns an empty content
SubmitGenerationEmpty ==
  StartRun([submit |-> TRUE, generation |-> "empty"], <<>>,
           {"header1", "header2"}, "display")

\* submit with ingredients; the category prediction raises (artifacts not
\* loaded) and the run ends with the text already cleared
SubmitPredictionRaises ==
  StartRun([submit |-> TRUE, generation |-> "not reached"], <<>>,
           {"header1", "exception"}, "idle")

\* any run that is not a submit with ingredients
Rerun ==
  StartRun([submit |-> FALSE, generation |-> "none"], formulation_text,
           {}, "display")

\* a display that renders the report whenever there is a text
display_branch_ignores_empty_parse(text, parsed) ==
  IF text # <<>> THEN "report" ELSE "info"

\* the branch of the display logic taken for a text and its parser result
display_branch(text, parsed) ==
  IF text # <<>>
  THEN IF parsed # <<>> THEN "report" ELSE "warning"
  ELSE "info"

\* Display and Verification Logic
Display ==
  /\ pc = "display"
  /\ pc' = "idle"
  /\ UNCHANGED <<formulation_text, run>>
  /\ LET parsed == IF formulation_text # <<>>
                   THEN parse_table(formulation_text) ELSE <<>>
         branch == display_branch(formulation_text, parsed)
     IN  /\ ingredients_to_verify' = parsed
         /\ IF branch = "report"
            THEN \E oracle \in [1..Len(parsed) -> PcpOutcomes] :
                   LET out == report_loop(parsed, oracle, 1,
                                [rows |-> <<>>, memo |-> verify_cache,
                                 log |-> <<>>, analyzed |-> <<>>])
                   IN  /\ verification_data' = out.rows
                       /\ verify_cache' = out.memo
                       /\ verifyLog' = out.log
                       /\ analyzeLog' = out.analyzed
                       /\ firstResult' = record_first(firstResult, out.log)
                       /\ pcpCalls' = record_calls(pcpCalls, out.log)
                       /\ shown' = shown \cup {"markdown", "header3", "dataframe"}
            ELSE /\ shown' = shown \cup (IF branch = "warning"
                                         THEN {"markdown", "header3", "warning"}
                                         ELSE {"info"})
                 /\ UNCHANGED <<verification_data, verify_cache, verifyLog,
                                analyzeLog, firstResult, pcpCalls>>

Next ==
  \/ SubmitGenerated
  \/ SubmitGenerationRaises
  \/ SubmitGenerationEmpty
  \/ SubmitPredictionRaises
  \/ Rerun
  \/ Display

Spec ==
  Init /\ [][Next]_vars

\* The parser and the report loop on the first text of a process
InitParse ==
  /\ formulation_text \in ParseTexts
  /\ verify_cache = EmptyMap
  /\ pc = "display"
  /\ run = [submit |-> TRUE, generation |-> "text"]
  /\ shown = {"header1", "header2"}
  /\ ingredients_to_verify = <<>>
  /\ verification_data = <<>>
  /\ verifyLog = <<>>
  /\ analyzeLog = <<>>
  /\ firstResult = EmptyMap
  /\ pcpCalls = EmptyMap

NextParse ==
  Display

SpecParse ==
  InitParse /\ [][NextParse]_vars

\* ------------------------------------------------------------------------
\* Properties
\* ------------------------------------------------------------------------

ReportShown ==
  pc = "idle" /\ "dataframe" \in shown

RowNames ==
  [i \in 1..Len(verification_data) |-> verification_data[i].Ingredient]

NonEmptyNames(names) ==
  SelectSeq(names, LAMBDA n : clean_name(n) # <<>>)

\* C1 as stated: a candidate whose name is empty after trimming and removing
\* every '*' gets no report row, and no row has the status "Empty".
C1_EmptyNamesDropped ==
  ReportShown =>
    \A i \in 1..Len(verification_data) :
      /\ verification_data[i].Status # "Empty"
      /\ clean_name(verification_data[i].Ingredient) # <<>>

\* C1 amended: every candidate whose name is empty after trimming and
\* removing every '*' gets its own report row, with the name as extracted,
\* the status "Empty" and the detail "-"; no other row has the status "Empty".
C1_EmptyNamesReported ==
  ReportShown =>
    /\ Len(verification_data) = Len(ingredients_to_verify)
    /\ \A i \in 1..Len(ingredients_to_verify) :
         IF clean_name(ingredients_to_verify[i]) = <<>>
         THEN verification_data[i] =
                [Ingredient |-> ingredients_to_verify[i], Status |-> "Empty",
                 Details |-> "-"]
         ELSE verification_data[i].Status # "Empty"

\* a report with a row for the candidate "*"
C1_Witness ==
  /\ ReportShown
  /\ \E i \in 1..Len(verification_data) :
       /\ ingredients_to_verify[i] = <<"*">>
       /\ verification_data[i].Status = "Empty"

\* the names of the verify calls of this run that returned Not Found
NotFoundNames ==
  LET nf == SelectSeq(verifyLog, LAMBDA e : e.value[1] = "Not Found")
  IN  [i \in 1..Len(nf) |-> nf[i].name]

\* the rows of Verified, API Error and Empty results carry the result as is
DirectRowsUnchanged ==
  \A i \in 1..Len(verifyLog) :
    verifyLog[i].value[1] \in {"Verified", "API Error", "Empty"} =>
      /\ verification_data[i].Status = verifyLog[i].value[1]
      /\ verification_data[i].Details = verifyLog[i].value[2]

\* C2 as stated: in a verification pass analyze_complex_ingredient is called
\* exactly once for each candidate whose verify result is Not Found and for
\* no other candidate, and Verified, API Error and Empty results are reported
\* with their own status and detail.
C2_EscalatedOncePerNotFound ==
  ReportShown =>
    /\ analyzeLog = NotFoundNames
    /\ DirectRowsUnchanged

\* C2 amended: in a verification pass analyze_complex_ingredient is never
\* called; a candidate whose verify result is Not Found is reported with the
\* status "Complex/Blend*" and the detail "See Chemist's Note", and Verified,
\* API Error and Empty results are reported with their own status and detail.
C2_NotFoundReplacedInline ==
  ReportShown =>
    /\ analyzeLog = <<>>
    /\ Len(verification_data) = Len(verifyLog)
    /\ DirectRowsUnchanged
    /\ \A i \in 1..Len(verifyLog) :
         verifyLog[i].value[1] = "Not Found" =>
           /\ verification_data[i].Status = "Complex/Blend*"
           /\ verification_data[i].Details = "See Chemist's Note"

\* a pass with a Not Found result next to an API Error result
C2_Witness ==
  /\ ReportShown
  /\ \E i, j \in 1..Len(verifyLog) :
       /\ verifyLog[i].value[1] = "Not Found"
       /\ verification_data[i].Status = "Complex/Blend*"
       /\ verifyLog[j].value[1] = "API Error"
       /\ verification_data[j].Status = "API Error"

\* C3 as stated: the status of every report row is one of Verified,
\* Not Found, Complex, Analysis Failed, API Error, Empty.
C3_StatusInSpecSet ==
  \A i \in 1..Len(verification_data) :
    verification_data[i].Status \in
      {"Verified", "Not Found", "Complex", "Analysis Failed", "API Error",
       "Empty"}

\* C3 amended: the status of every report row is one of Verified,
\* Complex/Blend*, API Error, Empty.
C3_StatusInCodeSet ==
  \A i \in 1..Len(verification_data) :
    verification_data[i].Status \in
      {"Verified", "Complex/Blend*", "API Error", "Empty"}

\* a report with a Complex/Blend* row and a Verified row
C3_Witness ==
  /\ ReportShown
  /\ \E i, j \in 1..Len(verification_data) :
       /\ verification_data[i].Status = "Complex/Blend*"
       /\ verification_data[j].Status = "Verified"

\* C4: a verify call for an argument that verify was called with before (in
\* an earlier run or earlier in the same pass) returns the result of the
\* first call and makes no database query, also when that result is
\* API Error.
C4_RepeatServedFromCache ==
  [][pc = "display" =>
       \A i \in 1..Len(verifyLog') :
         LET e == verifyLog'[i]
             earlier == {j \in 1..(i - 1) : verifyLog'[j].name = e.name}
         IN  /\ e.name \in DOMAIN firstResult =>
                  e.value = firstResult[e.name] /\ ~e.queried
             /\ (e.name \notin DOMAIN firstResult /\ earlier # {}) =>
                  e.value = verifyLog'[kth(earlier, 1)].value /\ ~e.queried
    ]_vars

\* an API Error of an earlier run returned again, without a query, in a run
\* in which the database would have answered with a match
C4_Witness ==
  /\ pc = "idle"
  /\ \E i \in 1..Len(verifyLog) :
       /\ verifyLog[i].value[1] = "API Error"
       /\ ~verifyLog[i].queried
       /\ ~verifyLog[i].outcome.raised
       /\ verifyLog[i].outcome.results # <<>>
       /\ \A j \in 1..(i - 1) : verifyLog[j].name # verifyLog[i].name

\* C5 as stated: two different strings with the same non-empty clean_name
\* cause at most one database query between them.
C5_OneQueryPerCleanName ==
  \A a, b \in DOMAIN pcpCalls :
    (a # b /\ clean_name(a) = clean_name(b) /\ clean_name(a) # <<>>) =>
      pcpCalls[a] + pcpCalls[b] <= 1

\* C5 amended: the lookup cache is keyed by the string passed to verify, not
\* by its clean_name: every distinct string verify was called with has caused
\* exactly one database query if its clean_name is non-empty (none if it is
\* empty), however often it was verified, so two different strings with the
\* same clean_name are queried once each.
C5_OneQueryPerArgument ==
  \A a \in DOMAIN pcpCalls :
    pcpCalls[a] = IF clean_name(a) = <<>> THEN 0 ELSE 1

\* "Aqua" and "Aqua*" have both been verified and queried, and a call of
\* this run was served from the cache
C5_Witness ==
  /\ pc = "idle"
  /\ {<<"A", "q", "u", "a">>, <<"A", "q", "u", "a", "*">>} \subseteq DOMAIN pcpCalls
  /\ pcpCalls[<<"A", "q", "u", "a">>] = 1
  /\ pcpCalls[<<"A", "q", "u", "a", "*">>] = 1
  /\ \E i \in 1..Len(verifyLog) : ~verifyLog[i].queried
                                  /\ verifyLog[i].value[1] # "Empty"

\* a table row as C6 describes it
claimed_row(line) ==
  /\ bordered(line)
  /\ segments(line) >= 3
  /\ ~contains(lower(segment2(line)), IngredientNameToken)
  /\ segment2(line) # PhaseToken
  /\ ~only_dashes(segment2(line))

\* a table row as the parser accepts it
accepted_row(line) ==
  /\ bordered(line)
  /\ segments(line) >= 5
  /\ ~contains(lower(segment2(line)), IngredientNameToken)
  /\ ~contains(segment2(line), TripleDash)

C7_ListFallback ==
  (pc = "idle" /\ formulation_text # <<>>) =>
    ingredients_to_verify =
      IF rows_where(formulation_text, accepted_row) # <<>>
      THEN rows_where(formulation_text, accepted_row)
      ELSE list_items(formulation_text)

\* C7 amended: extraction has the table-row strategy only: a numbered or
\* bulleted line never contributes a candidate, so a text without a table
\* row yields no candidate and the could-not-parse warning, also when it has
\* list items.
C7_TableRowsOnly ==
  (pc = "idle" /\ formulation_text # <<>>) =>
    /\ \A i \in 1..Len(ingredients_to_verify) :
         \E b \in line_starts(formulation_text) :
           /\ bordered(line_at(formulation_text, b))
           /\ segment2(line_at(formulation_text, b)) = ingredients_to_verify[i]
    /\ (\A b \in line_starts(formulation_text) :
          ~bordered(line_at(formulation_text, b))) =>
         /\ ingredients_to_verify = <<>>
         /\ "warning" \in shown
         /\ "dataframe" \notin shown

\* a text with list items and no table row: no candidate, warning shown
C7_Witness ==
  /\ pc = "idle"
  /\ list_items(formulation_text) # <<>>
  /\ rows_where(formulation_text, accepted_row) = <<>>
  /\ ingredients_to_verify = <<>>
  /\ "warning" \in shown

\* C8: the rows of the candidates with a non-empty clean_name are these
\* candidates, one row each, in extraction order, under the name as
\* extracted, whatever the lookups did.
C8_OneRowPerCandidate ==
  ReportShown =>
    NonEmptyNames(RowNames) = NonEmptyNames(ingredients_to_verify)

\* the lookup of the first of two candidates raised, and the second has its
\* row
C8_Witness ==
  /\ ReportShown
  /\ Len(ingredients_to_verify) >= 2
  /\ verifyLog[1].queried /\ verifyLog[1].outcome.raised
  /\ verification_data[1].Status = "API Error"
  /\ clean_name(ingredients_to_verify[2]) # <<>>
  /\ verification_data[2].Ingredient = ingredients_to_verify[2]

\* C9: a non-empty text without candidates gives the could-not-parse warning
\* and no report table, and a report table has at least one row.
C9_NothingParseable ==
  (pc = "idle" /\ formulation_text # <<>>) =>
    /\ ingredients_to_verify = <<>> =>
         "warning" \in shown /\ "dataframe" \notin shown
    /\ "dataframe" \in shown =>
         /\ ingredients_to_verify # <<>>
         /\ verification_data # <<>>
         /\ "warning" \notin shown

\* a non-empty text without candidates
C9_Witness ==
  /\ pc = "idle"
  /\ formulation_text # <<>>
  /\ ingredients_to_verify = <<>>
  /\ "warning" \in shown

\* C10: after a submit whose generation raised or returned an empty content
\* an error is shown and no report is rendered.
C10_GenerationFailureSurfaced ==
  (pc = "idle" /\ run.submit /\ run.generation \in {"raised", "empty"}) =>
    /\ "error" \in shown
    /\ "dataframe" \notin shown

====
